---- MODULE Spec2Model ----
(***************************************************************************)
(* Model of docs/chatbot_example/demo_server.py: the POST callback          *)
(* handle_message, the file-backed task cache of class LLMDemo (invoke,     *)
(* get_answer, is_task_finish) and the image path.                          *)
(*                                                                          *)
(* The task cache is a directory of JSON files (CACHE_DIR) shared by every  *)
(* request handler, in this process and in any other worker process of the *)
(* same application.  Each access to a cache file (exists, open+load,       *)
(* open for writing = truncate, dump+close) is one step of the model; the   *)
(* local computation that follows an access belongs to the same step.       *)
(***************************************************************************)
EXTENDS Integers, Sequences, FiniteSets, TLC

\* ---------------------------------------------------------------- constants
MAX_STEPS == 10

\* the ceiling of the padding length in _process_encrypted_image
PAD_BLOCK == 32
\* the AES block: the length of the IV and of the shortest decrypted buffer
AES_BLOCK == 16

\* ------------------------------------------------------------------- bounds
\* request handlers that may be in flight at the same time
NumHandlers == 2
\* distinct strings _generate_random_string(10) can return / a poll can name
NumIds == 2
\* distinct question texts
NumQuestions == 2
\* requests accepted in one run
MaxRequests == 3

\* longest image plaintext
MaxPlainLen == 33
\* largest value of the last byte of a decrypted buffer
MaxLastByte == 34
\* The counters of a task (its current_step, the count of its advances) are
\* folded at StepCap: every value from StepCap on is kept as StepCap.  The
\* code reads current_step only in "current_step >= max_steps" and in the
\* rendering of the answer, so with StepCap > MAX_STEPS the folding leaves the
\* finish flag of every reply unchanged; MaxRequests requests take a task of
\* the initial cache at most to MAX_STEPS + MaxRequests = StepCap.
StepCap == 13

Handlers == 1..NumHandlers
Ids == 1..NumIds
Questions == 1..NumQuestions

\* ------------------------------------------------------------ file contents
\* os.path.exists(cache_file) is False
Absent == [state |-> "absent"]
\* the file exists and is empty: opened with 'w', nothing dumped yet
Empty == [state |-> "empty"]

TaskData(question, created_time, current_step, max_steps) ==
    [state |-> "task", question |-> question, created_time |-> created_time,
     current_step |-> current_step, max_steps |-> max_steps]

IsTask(f) == f.state = "task"

\* ------------------------------------------------------------------ answers
NotFoundText == <<[line |-> "task not found or expired"]>>

\* get_answer's text: the echo of the question, then one line per step 0..n-1
RenderAnswerFromOne(question, current_step) ==
    <<[line |-> "question received", question |-> question]>>
    \o [i \in 1..current_step |-> [line |-> "step done", step |-> i]]
RenderAnswer(question, current_step) ==
    <<[line |-> "question received", question |-> question]>>
    \o [i \in 1..current_step |-> [line |-> "step done", step |-> i - 1]]

MakeTextStream(stream_id, content, finish) ==
    [msgtype |-> "stream", id |-> stream_id, finish |-> finish, content |-> content]

MakeImageStream(stream_id, image_data, finish) ==
    [msgtype |-> "stream", id |-> stream_id, finish |-> finish,
     msg_item |-> <<[msgtype |-> "image", image |-> image_data]>>]

\* ----------------------------------------------------------------- requests
\* A POST request: which query parameters are present (non-empty), whether
\* msg_signature matches the body, whether the body decrypts, and the
\* decrypted message.
Request(ps, sv, dc, mt, q, id, img) ==
    [method |-> "POST",
     sig_present |-> ps[1], ts_present |-> ps[2], nonce_present |-> ps[3],
     echostr_present |-> FALSE,
     sig_valid |-> sv, decryptable |-> dc,
     msgtype |-> mt, content |-> q, id |-> id, image |-> img]

AllParams == <<TRUE, TRUE, TRUE>>

\* what fetching and decrypting the image of an image message comes to
ImageOutcomes == {"network error", "invalid", "ok"}

Requests ==
    {Request(ps, FALSE, FALSE, "none", 1, 1, "ok") :
        ps \in {<<FALSE, TRUE, TRUE>>, <<TRUE, FALSE, TRUE>>, <<TRUE, TRUE, FALSE>>}}
    \cup {Request(AllParams, FALSE, dc, "text", 1, 1, "ok") : dc \in BOOLEAN}
    \cup {Request(AllParams, TRUE, FALSE, "text", 1, 1, "ok")}
    \cup {Request(AllParams, TRUE, TRUE, mt, 1, 1, "ok") :
            mt \in {"mixed", "event", "other", "none"}}
    \cup {Request(AllParams, TRUE, TRUE, "text", q, 1, "ok") : q \in Questions}
    \cup {Request(AllParams, TRUE, TRUE, "stream", 1, id, "ok") : id \in Ids}
    \cup {Request(AllParams, TRUE, TRUE, "image", 1, 1, img) : img \in ImageOutcomes}

\* A GET request of the verification handshake: which of the four query
\* parameters are present, whether msg_signature matches echostr, whether
\* echostr decrypts (for recipient ''), and the plaintext it decrypts to.
GetRequest(ps, sv, dc, plain) ==
    [method |-> "GET",
     sig_present |-> ps[1], ts_present |-> ps[2], nonce_present |-> ps[3],
     echostr_present |-> ps[4],
     sig_valid |-> sv, decryptable |-> dc,
     msgtype |-> "verify_url", content |-> plain, id |-> 1, image |-> "ok"]

GetRequests ==
    {GetRequest(ps, FALSE, FALSE, 1) :
        ps \in {<<FALSE, TRUE, TRUE, TRUE>>, <<TRUE, FALSE, TRUE, TRUE>>,
                <<TRUE, TRUE, FALSE, TRUE>>, <<TRUE, TRUE, TRUE, FALSE>>}}
    \cup {GetRequest(<<TRUE, TRUE, TRUE, TRUE>>, FALSE, TRUE, 1)}
    \cup {GetRequest(<<TRUE, TRUE, TRUE, TRUE>>, TRUE, FALSE, 1)}
    \cup {GetRequest(<<TRUE, TRUE, TRUE, TRUE>>, TRUE, TRUE, q) : q \in Questions}

NoRequest == [msgtype |-> "no request"]

\* WXBizJsonMsgCrypt.VerifyURL: the signature over echostr is verified, then
\* echostr is decrypted; ret is 0 and the plaintext is returned on success.
VerifyURL(req) ==
    IF ~req.sig_valid THEN [ret |-> -40001, decrypted |-> FALSE, echostr |-> 0]
    ELSE IF ~req.decryptable THEN [ret |-> -40007, decrypted |-> TRUE, echostr |-> 0]
    ELSE [ret |-> 0, decrypted |-> TRUE, echostr |-> req.content]

\* WXBizJsonMsgCrypt.DecryptMsg: the signature is verified first; the body is
\* decrypted only when the signature matches.
DecryptMsg(req) ==
    IF ~req.sig_valid THEN [ret |-> -40001, decrypted |-> FALSE]
    ELSE IF ~req.decryptable THEN [ret |-> -40007, decrypted |-> TRUE]
    ELSE [ret |-> 0, decrypted |-> TRUE]

\* ------------------------------------------------------- attachment padding
\* Python's data[:-n]: data[:0] when n = 0, and the stop index is clamped at 0
SliceUntilMinus(data, n) ==
    IF n = 0 THEN <<>>
    ELSE IF n >= Len(data) THEN <<>>
    ELSE SubSeq(data, 1, Len(data) - n)

\* step 4 of _process_encrypted_image, applied to the AES-decrypted buffer
StripPadding(data) ==
    IF Len(data) = 0
    THEN [ok |-> FALSE, data |-> <<>>, error |-> "exception"]
    ELSE LET pad_len == data[Len(data)] IN
         IF pad_len > PAD_BLOCK
         THEN [ok |-> FALSE, data |-> <<>>, error |-> "padding"]
         ELSE [ok |-> TRUE, data |-> SliceUntilMinus(data, pad_len), error |-> "none"]

NotStripped == [ok |-> FALSE, data |-> <<>>, error |-> "not run"]

\* an image plaintext of L bytes
PlainBytes(L) == [i \in 1..L |-> 65]

\* the platform's padding of an attachment: PKCS#7 with block 32
Pkcs7Pad(plain) ==
    LET p == PAD_BLOCK - (Len(plain) % PAD_BLOCK) IN
    plain \o [i \in 1..p |-> p]

\* the buffers AES decryption can hand to step 4: padded plaintexts, the same
\* with any last byte (corrupted ciphertext), and one-block buffers
Buffers ==
    {Pkcs7Pad(PlainBytes(L)) : L \in 0..MaxPlainLen}
    \cup {[Pkcs7Pad(PlainBytes(L)) EXCEPT ![Len(Pkcs7Pad(PlainBytes(L)))] = x] :
            L \in 0..MaxPlainLen, x \in 0..MaxLastByte}
    \cup {[i \in 1..AES_BLOCK |-> x] : x \in 0..MaxLastByte}

\* ---------------------------------------------------------------- responses
HttpError(code) == [status |-> code, body |-> [msgtype |-> "error"]]
Plain(body) == [status |-> 200, body |-> body]
\* the body "success" of the reply to a message without msgtype
Success == [msgtype |-> "success"]
\* the body of a handler that returns None
Null == [msgtype |-> "null"]
NoResponse == [status |-> 0]
\* the body "verify fail" of a failed handshake
VerifyFail == [msgtype |-> "verify fail"]
\* a text/plain body carrying echostr
Echo(echostr) == [msgtype |-> "echostr", text |-> echostr]
\* the framework's reply when a required query parameter is missing
Unprocessable == HttpError(422)

\* verify_url, after VerifyURL returned v
VerifyResponseRejects(v) ==
    IF v.ret # 0 THEN HttpError(400) ELSE Plain(Echo(v.echostr))
VerifyResponse(v) ==
    Plain(IF v.ret # 0 THEN VerifyFail ELSE Echo(v.echostr))

\* verify_url declares msg_signature, timestamp, nonce and echostr as required
GetParamsPresent(r) ==
    r.sig_present /\ r.ts_present /\ r.nonce_present /\ r.echostr_present

VARIABLES
    files,      \* CACHE_DIR: id -> Absent | Empty | task data
    pc,         \* per handler: where it is in handle_message
    req,        \* per handler: the request being handled
    stream_id,  \* per handler: local stream_id
    task_data,  \* per handler: local task_data of get_answer
    answer,     \* per handler: local answer
    resp,       \* per handler: the response returned
    crypto,     \* per handler: what DecryptMsg did for the request
    fetches,    \* per handler: requests.get calls made for the request
    nreq,       \* requests accepted so far
    persisted,  \* history: id -> the last complete record dumped to the file
    advances,   \* history: id -> get_answer dumps since the task was created
    finEmitted, \* history: ids for which a chunk with finish=true was returned
    collided,   \* history: ids invoke drew while their file was in the cache
    buffer,     \* the decrypted buffer handed to the padding strip
    stripped    \* what the padding strip returned for it

vars == <<files, pc, req, stream_id, task_data, answer, resp, crypto, fetches,
          nreq, persisted, advances, finEmitted, collided, buffer, stripped>>

locals == <<stream_id, task_data, answer>>
history == <<persisted, advances, finEmitted, collided>>
pad == <<buffer, stripped>>

NoData == [state |-> "none"]
NoAnswer == <<>>

\* A cache left behind by earlier requests: CACHE_DIR outlives the requests
\* and the process (LLMDemo.__init__ creates it only when it is missing).
\* Every id is absent, or one id holds a task created by a text message and
\* polled one after another current_step - 1 times.  Time is counted in
\* requests received: such a task was created at time 0, a task created by
\* the n-th request received has created_time n.
InitialCaches ==
    {[i \in Ids |-> Absent]}
    \cup {[i \in Ids |-> IF i = 1 THEN TaskData(1, 0, s, MAX_STEPS) ELSE Absent] :
            s \in 1..MAX_STEPS}

InitServer ==
    /\ files \in InitialCaches
    /\ pc = [h \in Handlers |-> "idle"]
    /\ req = [h \in Handlers |-> NoRequest]
    /\ stream_id = [h \in Handlers |-> 0]
    /\ task_data = [h \in Handlers |-> NoData]
    /\ answer = [h \in Handlers |-> NoAnswer]
    /\ resp = [h \in Handlers |-> NoResponse]
    /\ crypto = [h \in Handlers |-> NoData]
    /\ fetches = [h \in Handlers |-> 0]
    /\ nreq = 0
    /\ persisted = files
    /\ advances = [i \in Ids |-> IF IsTask(files[i]) THEN files[i].current_step ELSE 0]
    /\ finEmitted = {i \in Ids : IsTask(files[i]) /\ files[i].current_step >= MAX_STEPS}
    /\ collided = {}

Init ==
    /\ InitServer
    /\ buffer = <<>>
    /\ stripped = NotStripped

\* the handler returns r: its response is what the platform receives
Return(h, r) ==
    /\ resp' = [resp EXCEPT ![h] = r]
    /\ pc' = [pc EXCEPT ![h] = "done"]
    /\ finEmitted' =
         IF r.body.msgtype = "stream" /\ r.body.finish
         THEN finEmitted \cup {r.body.id} ELSE finEmitted

\* where handle_message goes once the message is decrypted
DispatchImageToTask(msgtype) ==
    CASE msgtype \in {"text", "image"} -> "invoke_open"
      [] msgtype = "stream" -> "get_answer_exists"
      [] OTHER -> "return"
DispatchUnknownToTask(msgtype) ==
    CASE msgtype = "stream" -> "get_answer_exists"
      [] msgtype = "image" -> "fetch"
      [] msgtype \in {"mixed", "event"} -> "return"
      [] OTHER -> "invoke_open"
Dispatch(msgtype) ==
    CASE msgtype = "text" -> "invoke_open"
      [] msgtype = "stream" -> "get_answer_exists"
      [] msgtype = "image" -> "fetch"
      [] OTHER -> "return"

\* the test on DecryptMsg's return code: "if ret != 0"
RejectedOnlyBadSignature(d) == d.ret = -40001
Rejected(d) == d.ret # 0

ParamsPresentIgnoresNonce(r) == r.sig_present /\ r.ts_present
ParamsPresent(r) == r.sig_present /\ r.ts_present /\ r.nonce_present

\* handle_message for the request r, from its arrival to the dispatch on msgtype
Receive(h, r) ==
    /\ req' = [req EXCEPT ![h] = r]
    /\ fetches' = [fetches EXCEPT ![h] = 0]
    /\ IF ~ParamsPresent(r)
       THEN /\ crypto' = [crypto EXCEPT ![h] = NoData]
            /\ stream_id' = stream_id
            /\ Return(h, HttpError(400))
       ELSE LET d == DecryptMsg(r) IN
            /\ crypto' = [crypto EXCEPT ![h] = d]
            /\ IF Rejected(d)
               THEN /\ stream_id' = stream_id
                    /\ Return(h, HttpError(400))
               ELSE IF r.msgtype = "none"
               THEN /\ stream_id' = stream_id
                    /\ Return(h, Plain(Success))
               ELSE IF Dispatch(r.msgtype) = "return"
               THEN /\ stream_id' = stream_id
                    /\ Return(h, Plain(Null))
               ELSE /\ pc' = [pc EXCEPT ![h] = Dispatch(r.msgtype)]
                    /\ stream_id' = [stream_id EXCEPT ![h] =
                          IF r.msgtype = "stream" THEN r.id ELSE 0]
                    /\ UNCHANGED <<resp, finEmitted>>
    /\ UNCHANGED <<files, task_data, answer, persisted, advances, collided>>
    /\ UNCHANGED pad

\* handle_message: a POST request arrives at a free handler
HandleMessage(h) ==
    /\ pc[h] = "idle"
    /\ nreq < MaxRequests
    /\ nreq' = nreq + 1
    /\ \E r \in Requests : Receive(h, r)

\* verify_url: the GET handshake; a request lacking a required query
\* parameter is answered by the framework and verify_url does not run
VerifyUrl(h) ==
    /\ pc[h] = "idle"
    /\ nreq < MaxRequests
    /\ \E r \in GetRequests :
        /\ req' = [req EXCEPT ![h] = r]
        /\ nreq' = nreq + 1
        /\ IF ~GetParamsPresent(r)
           THEN /\ crypto' = [crypto EXCEPT ![h] = NoData]
                /\ Return(h, Unprocessable)
           ELSE /\ crypto' = [crypto EXCEPT ![h] = VerifyURL(r)]
                /\ Return(h, VerifyResponse(VerifyURL(r)))
    /\ UNCHANGED <<files, locals, fetches, persisted, advances, collided>>
    /\ UNCHANGED pad

\* LLMDemo.invoke: the id is drawn and the cache file is opened for writing
InvokeOpen(h) ==
    /\ pc[h] = "invoke_open"
    /\ \E id \in Ids :
        /\ stream_id' = [stream_id EXCEPT ![h] = id]
        /\ files' = [files EXCEPT ![id] = Empty]
        /\ collided' = IF files[id] = Absent THEN collided ELSE collided \cup {id}
    /\ pc' = [pc EXCEPT ![h] = "invoke_dump"]
    /\ UNCHANGED <<req, task_data, answer, resp, crypto, fetches, nreq,
                   persisted, advances, finEmitted>>
    /\ UNCHANGED pad

\* LLMDemo.invoke: the new record is dumped and the file closed
InvokeDump(h) ==
    LET id == stream_id[h]
        rec == TaskData(req[h].content, nreq, 0, MAX_STEPS) IN
    /\ pc[h] = "invoke_dump"
    /\ files' = [files EXCEPT ![id] = rec]
    /\ persisted' = [persisted EXCEPT ![id] = rec]
    /\ advances' = [advances EXCEPT ![id] = 0]
    /\ pc' = [pc EXCEPT ![h] = "get_answer_exists"]
    /\ UNCHANGED <<req, locals, resp, crypto, fetches, nreq, finEmitted, collided>>
    /\ UNCHANGED pad

\* LLMDemo.get_answer: os.path.exists
GetAnswerExists(h) ==
    /\ pc[h] = "get_answer_exists"
    /\ IF files[stream_id[h]] = Absent
       THEN /\ answer' = [answer EXCEPT ![h] = NotFoundText]
            /\ pc' = [pc EXCEPT ![h] = "is_task_finish_exists"]
       ELSE /\ answer' = answer
            /\ pc' = [pc EXCEPT ![h] = "get_answer_load"]
    /\ UNCHANGED <<files, req, stream_id, task_data, resp, crypto, fetches, nreq, history>>
    /\ UNCHANGED pad

\* LLMDemo.get_answer: open for reading and json.load; an empty file does not
\* parse and the exception leaves the handler as a server error
GetAnswerLoad(h) ==
    /\ pc[h] = "get_answer_load"
    /\ IF files[stream_id[h]] = Empty
       THEN /\ Return(h, HttpError(500))
            /\ task_data' = task_data
       ELSE /\ task_data' = [task_data EXCEPT ![h] = files[stream_id[h]]]
            /\ pc' = [pc EXCEPT ![h] = "get_answer_open"]
            /\ UNCHANGED <<resp, finEmitted>>
    /\ UNCHANGED <<files, req, stream_id, answer, crypto, fetches, nreq, persisted, advances, collided>>
    /\ UNCHANGED pad

\* the step get_answer stores: one more than the step it loaded
NextStepSkips(current_step, max_steps) == current_step + 2
Folded(n) == IF n < StepCap THEN n ELSE StepCap
NextStep(current_step, max_steps) == Folded(current_step + 1)

\* the record get_answer writes back: the record it loaded with the new step
AdvancedRestamped(t) ==
    TaskData(t.question, t.created_time + 1, NextStep(t.current_step, t.max_steps),
             t.max_steps)
Advanced(t) == [t EXCEPT !.current_step = NextStep(t.current_step, t.max_steps)]

\* LLMDemo.get_answer: the step is incremented and the file opened for writing
GetAnswerOpen(h) ==
    LET t == task_data[h] IN
    /\ pc[h] = "get_answer_open"
    /\ task_data' = [task_data EXCEPT ![h] = Advanced(t)]
    /\ files' = [files EXCEPT ![stream_id[h]] = Empty]
    /\ pc' = [pc EXCEPT ![h] = "get_answer_dump"]
    /\ UNCHANGED <<req, stream_id, answer, resp, crypto, fetches, nreq, history>>
    /\ UNCHANGED pad

\* LLMDemo.get_answer: the record is dumped, the file closed, the text rendered
GetAnswerDump(h) ==
    LET id == stream_id[h]
        t == task_data[h] IN
    /\ pc[h] = "get_answer_dump"
    /\ files' = [files EXCEPT ![id] = t]
    /\ persisted' = [persisted EXCEPT ![id] = t]
    /\ advances' = [advances EXCEPT ![id] = Folded(@ + 1)]
    /\ answer' = [answer EXCEPT ![h] = RenderAnswer(t.question, t.current_step)]
    /\ pc' = [pc EXCEPT ![h] = "is_task_finish_exists"]
    /\ UNCHANGED <<req, stream_id, task_data, resp, crypto, fetches, nreq, finEmitted, collided>>
    /\ UNCHANGED pad

\* what is_task_finish returns for an absent task
UnfinishedWhenAbsent == FALSE
FinishedWhenAbsent == TRUE

\* LLMDemo.is_task_finish: os.path.exists; an absent task counts as finished
IsTaskFinishExists(h) ==
    /\ pc[h] = "is_task_finish_exists"
    /\ IF files[stream_id[h]] = Absent
       THEN Return(h, Plain(MakeTextStream(stream_id[h], answer[h], FinishedWhenAbsent)))
       ELSE /\ pc' = [pc EXCEPT ![h] = "is_task_finish_load"]
            /\ UNCHANGED <<resp, finEmitted>>
    /\ UNCHANGED <<files, req, locals, crypto, fetches, nreq, persisted, advances, collided>>
    /\ UNCHANGED pad

\* the finished test of is_task_finish
IsFinished(t) == t.current_step >= t.max_steps

\* LLMDemo.is_task_finish: open, json.load and the comparison; then the stream
\* reply is built, encrypted and returned
IsTaskFinishLoad(h) ==
    LET f == files[stream_id[h]] IN
    /\ pc[h] = "is_task_finish_load"
    /\ IF f = Empty
       THEN Return(h, HttpError(500))
       ELSE Return(h, Plain(MakeTextStream(stream_id[h], answer[h], IsFinished(f))))
    /\ UNCHANGED <<files, req, locals, crypto, fetches, nreq, persisted, advances, collided>>
    /\ UNCHANGED pad

\* _process_encrypted_image and the image branch of handle_message: the image
\* is fetched once; a failure is logged and the handler returns nothing
Fetch(h) ==
    /\ pc[h] = "fetch"
    /\ fetches' = [fetches EXCEPT ![h] = @ + 1]
    /\ IF req[h].image # "ok"
       THEN /\ Return(h, Plain(Null))
            /\ stream_id' = stream_id
       ELSE \E id \in Ids :
            /\ stream_id' = [stream_id EXCEPT ![h] = id]
            /\ Return(h, Plain(MakeImageStream(id, "decrypted image", TRUE)))
    /\ UNCHANGED <<files, req, task_data, answer, crypto, nreq, persisted, advances, collided>>
    /\ UNCHANGED pad

\* the response has been sent: the handler is free for the next request
Respond(h) ==
    /\ pc[h] = "done"
    /\ pc' = [pc EXCEPT ![h] = "idle"]
    /\ req' = [req EXCEPT ![h] = NoRequest]
    /\ stream_id' = [stream_id EXCEPT ![h] = 0]
    /\ task_data' = [task_data EXCEPT ![h] = NoData]
    /\ answer' = [answer EXCEPT ![h] = NoAnswer]
    /\ resp' = [resp EXCEPT ![h] = NoResponse]
    /\ crypto' = [crypto EXCEPT ![h] = NoData]
    /\ fetches' = [fetches EXCEPT ![h] = 0]
    /\ UNCHANGED <<files, nreq, history>>
    /\ UNCHANGED pad

Next ==
    \E h \in Handlers :
        \/ HandleMessage(h)
        \/ VerifyUrl(h)
        \/ InvokeOpen(h)
        \/ InvokeDump(h)
        \/ GetAnswerExists(h)
        \/ GetAnswerLoad(h)
        \/ GetAnswerOpen(h)
        \/ GetAnswerDump(h)
        \/ IsTaskFinishExists(h)
        \/ IsTaskFinishLoad(h)
        \/ Fetch(h)
        \/ Respond(h)

Spec == Init /\ [][Next]_vars

\* Requests handled one after another: a request is accepted only when no
\* other request is being handled (a single event loop: handle_message does
\* not await between reading the body and returning).
NextSeq ==
    \E h \in Handlers :
        \/ (\A g \in Handlers : pc[g] = "idle") /\ HandleMessage(h)
        \/ (\A g \in Handlers : pc[g] = "idle") /\ VerifyUrl(h)
        \/ InvokeOpen(h)
        \/ InvokeDump(h)
        \/ GetAnswerExists(h)
        \/ GetAnswerLoad(h)
        \/ GetAnswerOpen(h)
        \/ GetAnswerDump(h)
        \/ IsTaskFinishExists(h)
        \/ IsTaskFinishLoad(h)
        \/ Fetch(h)
        \/ Respond(h)

SpecSeq == Init /\ [][NextSeq]_vars

\* The platform polling one stream id: the task of PolledId is in the cache
\* and unfinished, and the platform sends a poll of it to every free handler
\* until a reply with finish=true has been returned; every handler that can
\* take a step eventually takes one.
PolledId == 1

InitLive ==
    /\ Init
    /\ IsTask(files[PolledId])
    /\ files[PolledId].current_step < MAX_STEPS

PlatformPoll(h) ==
    /\ pc[h] = "idle"
    /\ PolledId \notin finEmitted
    /\ nreq' = nreq
    /\ Receive(h, Request(AllParams, TRUE, TRUE, "stream", 1, PolledId, "ok"))

HandlerStep(h) ==
    \/ PlatformPoll(h)
    \/ GetAnswerExists(h)
    \/ GetAnswerLoad(h)
    \/ GetAnswerOpen(h)
    \/ GetAnswerDump(h)
    \/ IsTaskFinishExists(h)
    \/ IsTaskFinishLoad(h)
    \/ Respond(h)

NextLive ==
    \E h \in Handlers : HandlerStep(h)

SpecLive ==
    /\ InitLive
    /\ [][NextLive]_vars
    /\ \A h \in Handlers : WF_vars(HandlerStep(h))

\* The padding strip alone: a decrypted buffer is drawn and stripped once.
InitPad ==
    /\ InitServer
    /\ files = [i \in Ids |-> Absent]
    /\ buffer \in Buffers
    /\ stripped = NotStripped

Strip ==
    /\ stripped = NotStripped
    /\ stripped' = StripPadding(buffer)
    /\ UNCHANGED <<files, pc, req, locals, resp, crypto, fetches, nreq, history, buffer>>

NextPad == Strip

SpecPad == InitPad /\ [][NextPad]_vars

\* ------------------------------------------------------------------ claims
Quiescent == \A h \in Handlers : pc[h] \in {"idle", "done"}

\* h takes a step
Steps(h) == pc'[h] # pc[h]

\* h returns a response in this step
Returns(h) == pc[h] # "done" /\ pc'[h] = "done"

IsPost(r) == r.method = "POST"

Accepted(r) == IsPost(r) /\ ParamsPresent(r) /\ r.sig_valid /\ r.decryptable

\* C1: once the concurrent get_answer calls on a task have all returned, the
\* stored current_step equals the number of get_answer calls made on the task
\* since it was created (as long as that number is at most max_steps): no
\* increment is lost.  Stated for the tasks whose id no later invoke drew.
C1_NoLostUpdate ==
    \A i \in Ids :
        (Quiescent /\ IsTask(files[i]) /\ i \notin collided
            /\ advances[i] <= files[i].max_steps)
            => files[i].current_step = advances[i]

\* C2: every stored task record has current_step <= max_steps.
C2_StepWithinMax ==
    \A i \in Ids : IsTask(files[i]) => files[i].current_step <= files[i].max_steps

\* C3: the persisted current_step of a task id never decreases: every record
\* dumped to the file of an id carries a step at least as large as the record
\* the file held before.
C3_StepNeverDecreases ==
    [][\A i \in Ids :
         (IsTask(persisted[i]) /\ IsTask(persisted'[i]))
            => persisted'[i].current_step >= persisted[i].current_step]_vars

\* C4: once the persisted record of a task is finished (current_step >=
\* max_steps), the record persisted for that id is finished after every later
\* operation on the store.
C4_FinishedStays ==
    [][\A i \in Ids :
         (IsTask(persisted[i]) /\ IsFinished(persisted[i]))
            => (IsTask(persisted'[i]) /\ IsFinished(persisted'[i]))]_vars

\* C5: with requests handled one after another, the response to a text
\* message is the text of step 1 (the echo and the line of step 0) with
\* finish=false under the id of a task just created, and the response to the
\* k-th poll of a task since its creation has finish=false for
\* k < MAX_STEPS - 1 and finish=true for k = MAX_STEPS - 1.
C5_EndToEnd ==
    \A h \in Handlers :
        (pc[h] = "done" /\ Accepted(req[h])) =>
            /\ req[h].msgtype = "text" =>
                /\ resp[h] = Plain(MakeTextStream(stream_id[h],
                                   RenderAnswer(req[h].content, 1), FALSE))
                /\ Len(resp[h].body.content) = 2
                /\ resp[h].body.content[2].step = 0
                /\ advances[stream_id[h]] = 1
            /\ (req[h].msgtype = "stream" /\ IsTask(files[req[h].id])) =>
                LET k == advances[req[h].id] - 1 IN
                /\ resp[h].status = 200
                /\ resp[h].body.msgtype = "stream"
                /\ resp[h].body.id = req[h].id
                /\ k < MAX_STEPS - 1 => ~resp[h].body.finish
                /\ k = MAX_STEPS - 1 => resp[h].body.finish

\* the (MAX_STEPS - 1)-th poll of a task has been answered with finish=true
C5_Witness ==
    \E h \in Handlers :
        /\ pc[h] = "done"
        /\ req[h].msgtype = "stream"
        /\ IsTask(files[req[h].id])
        /\ advances[req[h].id] = MAX_STEPS
        /\ resp[h].status = 200
        /\ resp[h].body.finish

\* C6: once a chunk with finish=true has been returned for a stream id, no
\* later poll of that id returns a chunk for it (stated for the polls that
\* find the task in the cache).
C6_NoChunkAfterFinish ==
    [][\A h \in Handlers :
         (/\ Returns(h)
          /\ req[h].msgtype = "stream"
          /\ resp'[h].body.msgtype = "stream"
          /\ resp'[h].body.content # NotFoundText)
            => resp'[h].body.id \notin finEmitted]_vars

\* C7: invoke never returns an id that is already present in the store.
C7_FreshId ==
    [][\A h \in Handlers :
         (pc[h] = "invoke_open" /\ pc'[h] = "invoke_dump")
            => files[stream_id'[h]] = Absent]_vars

\* C8: a POST whose signature does not match or whose body does not decrypt
\* is answered 400 by the step that receives it, that step leaves the cache
\* unchanged and dispatches nothing, nothing is decrypted when the signature
\* does not match, and the handler of such a request is never anywhere but at
\* its return.
C8_FailClosed ==
    /\ [](\A h \in Handlers :
            (pc[h] # "idle" /\ IsPost(req[h]) /\ ParamsPresent(req[h])
                /\ ~Accepted(req[h])) =>
                /\ pc[h] = "done"
                /\ resp[h] = HttpError(400)
                /\ ~req[h].sig_valid => ~crypto[h].decrypted)
    /\ [][\A h \in Handlers :
            (Steps(h) /\ pc[h] = "idle" /\ IsPost(req'[h]) /\ ParamsPresent(req'[h])
                /\ ~Accepted(req'[h]))
                => (files' = files /\ pc'[h] = "done")]_vars

\* a request with a bad signature over a decryptable body was rejected while
\* the cache holds a task
C8_Witness ==
    \E h \in Handlers :
        /\ pc[h] = "done"
        /\ IsPost(req[h])
        /\ ParamsPresent(req[h]) /\ ~req[h].sig_valid /\ req[h].decryptable
        /\ resp[h].status = 400
        /\ \E i \in Ids : IsTask(files[i])

\* C9: a poll of an id that is absent from the cache is answered 200 with the
\* not-found text and finish=true, and no step of the poll changes the cache.
C9_UnknownId ==
    /\ [](\A h \in Handlers :
            (pc[h] = "done" /\ Accepted(req[h]) /\ req[h].msgtype = "stream"
                /\ files[req[h].id] = Absent)
                => resp[h] = Plain(MakeTextStream(req[h].id, NotFoundText, TRUE)))
    /\ [][\A h \in Handlers :
            (Steps(h) /\ pc[h] # "idle" /\ req[h].msgtype = "stream"
                /\ files[req[h].id] = Absent)
                => files' = files]_vars

\* a poll of an absent id was answered while the cache holds another task
C9_Witness ==
    \E h \in Handlers :
        /\ pc[h] = "done"
        /\ req[h].msgtype = "stream"
        /\ files[req[h].id] = Absent
        /\ resp[h].status = 200
        /\ \E i \in Ids : IsTask(files[i])

\* C10: when the fetch of an image message's attachment fails, the handler
\* returns a stream reply (carrying a failure text) and has fetched once.
C10_FetchFailureReported ==
    \A h \in Handlers :
        (pc[h] = "done" /\ Accepted(req[h]) /\ req[h].msgtype = "image"
            /\ req[h].image = "network error")
            => (resp[h].body.msgtype = "stream" /\ fetches[h] = 1)

C12_Acknowledged ==
    /\ [](\A h \in Handlers :
            (pc[h] # "idle" /\ Accepted(req[h])
                /\ req[h].msgtype \in {"mixed", "event", "other"}) =>
                /\ pc[h] = "done"
                /\ resp[h].status = 200
                /\ resp[h] = Plain(Null))
    /\ [][\A h \in Handlers :
            (Steps(h) /\ pc'[h] # "idle" /\ Accepted(req'[h])
                /\ req'[h].msgtype \in {"mixed", "event", "other"})
                => (files' = files /\ persisted' = persisted)]_vars

\* a message of an unsupported type was acknowledged while the cache holds a task
C12_Witness ==
    \E h \in Handlers :
        /\ pc[h] = "done"
        /\ Accepted(req[h]) /\ req[h].msgtype = "other"
        /\ resp[h].status = 200
        /\ \E i \in Ids : IsTask(files[i])

\* C13: the answer of a request that advanced a task is the echo of the
\* question of the record it persisted followed by exactly current_step lines
\* numbered 0, 1, ..., current_step - 1 in this order, where current_step is
\* the one that request's get_answer persisted; the reply carries that answer.
C13_AnswerOfQuestionAndStep ==
    /\ [](\A h \in Handlers :
            (pc[h] \in {"is_task_finish_exists", "is_task_finish_load", "done"}
                /\ IsTask(task_data[h])) =>
                LET a == answer[h]
                    t == task_data[h] IN
                /\ Len(a) = t.current_step + 1
                /\ a[1] = [line |-> "question received", question |-> t.question]
                /\ \A i \in 1..t.current_step :
                      a[i + 1] = [line |-> "step done", step |-> i - 1]
                /\ (pc[h] = "done" /\ resp[h].status = 200) =>
                      resp[h].body.content = a)
    /\ [][\A h \in Handlers :
            (Steps(h) /\ pc[h] = "get_answer_dump")
                => persisted'[stream_id[h]] = task_data[h]]_vars

\* a poll was answered with the question and at least three step lines
C13_Witness ==
    \E h \in Handlers :
        /\ pc[h] = "done"
        /\ req[h].msgtype = "stream"
        /\ resp[h].status = 200
        /\ IsTask(task_data[h])
        /\ Len(resp[h].body.content) >= 4

\* the request lacks msg_signature, timestamp or nonce
MissingParam(r) == ~(r.sig_present /\ r.ts_present /\ r.nonce_present)

\* C14: a POST lacking msg_signature, timestamp or nonce is answered 400 by
\* the step that receives it, before the body is read and before DecryptMsg
\* is called (nothing is recorded for the request's body or crypto), and that
\* step leaves the task cache unchanged.
C14_MissingParamRejected ==
    /\ [](\A h \in Handlers :
            (pc[h] # "idle" /\ IsPost(req[h]) /\ MissingParam(req[h])) =>
                /\ pc[h] = "done"
                /\ resp[h] = HttpError(400)
                /\ crypto[h] = NoData)
    /\ [][\A h \in Handlers :
            (Steps(h) /\ pc'[h] # "idle" /\ IsPost(req'[h]) /\ MissingParam(req'[h]))
                => (files' = files /\ persisted' = persisted)]_vars

\* a POST without nonce was rejected while the cache holds a task
C14_Witness ==
    \E h \in Handlers :
        /\ pc[h] = "done"
        /\ IsPost(req[h]) /\ ~req[h].nonce_present
        /\ req[h].sig_present /\ req[h].ts_present
        /\ resp[h].status = 400
        /\ \E i \in Ids : IsTask(files[i])

\* what C15 says of the reply to a GET handshake
HandshakeReply(h) ==
    /\ resp[h].status = 200
    /\ (req[h].sig_valid /\ req[h].decryptable) =>
          resp[h].body = Echo(req[h].content)
    /\ ~(req[h].sig_valid /\ req[h].decryptable) =>
          resp[h].body = VerifyFail

\* C15 as stated: every GET handshake is answered 200, with the decrypted
\* echostr when verification and decryption succeed and with the fixed
\* failure string otherwise.
C15_HandshakeAlways200 ==
    \A h \in Handlers :
        (pc[h] = "done" /\ req[h].method = "GET") => HandshakeReply(h)

\* C15 as amended: a GET handshake that carries msg_signature, timestamp,
\* nonce and echostr is answered 200, with the decrypted echostr when
\* verification and decryption succeed and with the fixed failure string
\* otherwise; no handshake changes the task cache.
C15_HandshakeWithParams200 ==
    /\ [](\A h \in Handlers :
            (pc[h] = "done" /\ req[h].method = "GET"
                /\ req[h].sig_present /\ req[h].ts_present
                /\ req[h].nonce_present /\ req[h].echostr_present)
                => HandshakeReply(h))
    /\ [][\A h \in Handlers :
            (Steps(h) /\ pc'[h] # "idle" /\ req'[h].method = "GET")
                => (files' = files /\ persisted' = persisted)]_vars

\* a handshake was answered with its plaintext while the cache holds a task
C15_Witness ==
    \E h \in Handlers :
        /\ pc[h] = "done"
        /\ req[h].method = "GET"
        /\ req[h].sig_valid /\ req[h].decryptable /\ req[h].content = 2
        /\ resp[h] = Plain(Echo(2))
        /\ \E i \in Ids : IsTask(files[i])

\* C16: with p the last byte of the decrypted buffer, the strip fails when
\* p > 32 and otherwise succeeds and returns the buffer without exactly its
\* last p bytes.
C16_StripRemovesPad ==
    stripped # NotStripped =>
        LET p == buffer[Len(buffer)] IN
        /\ p > PAD_BLOCK => ~stripped.ok
        /\ p <= PAD_BLOCK =>
            /\ stripped.ok
            /\ Len(stripped.data) = Len(buffer) - p
            /\ stripped.data = SubSeq(buffer, 1, Len(buffer) - p)

\* C17: when the platform keeps polling the stream id of a task in the cache
\* and every handler that can take a step eventually takes one, a reply with
\* finish=true is eventually returned for that id.
C17_EventuallyFinished == <>(PolledId \in finEmitted)

\* the completed-step lines of an answer: every line after the echoed question
StepLines(content) == Len(content) - 1

\* C18: in every reply to a text or stream request on an existing task, finish
\* is true exactly when the content of the same reply shows max_steps or more
\* completed steps, whatever other polls of the id are handled between the
\* request's get_answer and its is_task_finish.
C18_FinishAgreesWithAnswer ==
    \A h \in Handlers :
        (/\ pc[h] = "done"
         /\ req[h].msgtype \in {"text", "stream"}
         /\ resp[h].status = 200
         /\ IsTask(task_data[h])
         /\ stream_id[h] \notin collided)
            => (resp[h].body.finish
                    <=> StepLines(resp[h].body.content) >= task_data[h].max_steps)

\* the fields of a record that invoke sets and no poll is to change
Creation(t) == <<t.question, t.created_time, t.max_steps>>

\* a step of get_answer for the id i that writes the id's file
Advances(h, i) ==
    /\ Steps(h)
    /\ pc[h] \in {"get_answer_open", "get_answer_dump"}
    /\ stream_id[h] = i

\* C19: get_answer changes nothing but current_step of the record of its id:
\* question, created_time and max_steps keep the values invoke gave them, and
\* the files of all other ids are as they were, however polls interleave.
\* (The id is one that invoke has not drawn a second time.)
C19_AdvanceFrame ==
    /\ [] \A i \in Ids : (IsTask(files[i]) /\ i \notin collided)
                            => Creation(files[i]) = Creation(persisted[i])
    /\ [][\A h \in Handlers : \A i \in Ids :
            Advances(h, i) =>
                /\ \A j \in Ids \ {i} : files'[j] = files[j] /\ persisted'[j] = persisted[j]
                /\ (pc[h] = "get_answer_dump" /\ i \notin collided)
                      => /\ IsTask(persisted[i])
                         /\ Creation(persisted'[i]) = Creation(persisted[i])
                         /\ files'[i] = persisted'[i]]_vars

\* two polls of one id interleaved (an update was lost), and a task of
\* another id in the cache, created by a later request
C19_Witness ==
    \E i \in Ids : \E j \in Ids \ {i} :
        /\ i \notin collided
        /\ IsTask(files[i])
        /\ advances[i] > files[i].current_step
        /\ IsTask(files[j])
        /\ files[j].created_time # files[i].created_time

\* C20: a read of a task's record in get_answer or is_task_finish never finds
\* the record half written: no poll of a task that invoke has written in full
\* (under an id it has drawn once) ends in the server error of a failed
\* json.load.
C20_NoPartialRead ==
    [][\A h \in Handlers :
        (/\ Steps(h)
         /\ pc[h] \in {"get_answer_load", "is_task_finish_load"}
         /\ stream_id[h] \in Ids \ collided
         /\ IsTask(persisted[stream_id[h]]))
            => (files[stream_id[h]] # Empty /\ resp'[h].status # 500)]_vars

====
